---- MODULE Spec2Model ----
(***************************************************************************)
(* Model of the SPOC line translators and table converters:                *)
(*   tools/cpp_to_py_converter.py  (convert_line, process_file)            *)
(*   scripts/convert_spoc_tsv.py   (translate_code, write_chunk, chunking) *)
(*   convert_tsv_to_jsonl.py       (convert_tsv_to_jsonl)                  *)
(*                                                                         *)
(* A Python str is a sequence of one-character strings; Python's None is   *)
(* the one-element sequence None, which is no str.                         *)
(***************************************************************************)
EXTENDS Integers, Sequences, FiniteSets, TLC

\* ------------------------------------------------------------------ text

None == <<"<None>">>

\* the str of a string literal: S("ab") = <<"a", "b">>
S(lit) == [k \in 1..Len(lit) |-> SubSeq(lit, k, k)]

\* F of the value v: a local name, v computed once, for what F uses often
Let(v, F(_)) == F(v)

Lower == {"a","b","c","d","e","f","g","h","i","j","k","l","m",
          "n","o","p","q","r","s","t","u","v","w","x","y","z"}
Upper == {"A","B","C","D","E","F","G","H","I","J","K","L","M",
          "N","O","P","Q","R","S","T","U","V","W","X","Y","Z"}
Digit == {"0","1","2","3","4","5","6","7","8","9"}

\* \w and \s of Python's re, on the characters the model uses
WordCh == Lower \cup Upper \cup Digit \cup {"_"}
SpaceCh == {" ", "\t", "\n", "\r", "\f"}

Range(s) == {s[k] : k \in 1..Len(s)}

Slice(s, a, b) == [k \in 1..(IF b >= a THEN b - a + 1 ELSE 0) |-> s[a + k - 1]]

\* str.startswith / str.endswith
startswith(s, pre) == Len(pre) <= Len(s) /\ Slice(s, 1, Len(pre)) = pre
endswith(s, suf) == Len(suf) <= Len(s) /\ Slice(s, Len(s) - Len(suf) + 1, Len(s)) = suf

\* str.lstrip(chars) / str.rstrip(chars) / str.strip(chars)
RECURSIVE lstripCh(_, _)
lstripCh(s, cs) == IF s # <<>> /\ Head(s) \in cs THEN lstripCh(Tail(s), cs) ELSE s
RECURSIVE rstripCh(_, _)
rstripCh(s, cs) ==
    IF s # <<>> /\ s[Len(s)] \in cs THEN rstripCh(Slice(s, 1, Len(s) - 1), cs) ELSE s
stripCh(s, cs) == rstripCh(lstripCh(s, cs), cs)
strip(s) == stripCh(s, SpaceCh)
rstrip(s) == rstripCh(s, SpaceCh)

\* first index k >= from with s[k .. k+Len(sep)-1] = sep, or 0
RECURSIVE find(_, _, _)
find(s, sep, from) ==
    IF from + Len(sep) - 1 > Len(s) THEN 0
    ELSE IF Slice(s, from, from + Len(sep) - 1) = sep THEN from
    ELSE find(s, sep, from + 1)

contains(s, sub) == find(s, sub, 1) # 0

\* str.split(sep): the list of pieces (sep non-empty)
RECURSIVE split(_, _)
split(s, sep) ==
    Let(find(s, sep, 1), LAMBDA k :
        IF k = 0 THEN <<s>>
        ELSE <<Slice(s, 1, k - 1)>> \o split(Slice(s, k + Len(sep), Len(s)), sep))

\* str.split(sep, 1)
split1(s, sep) ==
    Let(find(s, sep, 1), LAMBDA k :
        IF k = 0 THEN <<s>>
        ELSE <<Slice(s, 1, k - 1), Slice(s, k + Len(sep), Len(s))>>)

\* str.replace(old, new) (old non-empty)
RECURSIVE replace(_, _, _)
replace(s, old, new) ==
    Let(find(s, old, 1), LAMBDA k :
        IF k = 0 THEN s
        ELSE Slice(s, 1, k - 1) \o new \o replace(Slice(s, k + Len(old), Len(s)), old, new))

\* sep.join(parts)
RECURSIVE join(_, _)
join(sep, parts) ==
    IF parts = <<>> THEN <<>>
    ELSE IF Len(parts) = 1 THEN parts[1]
    ELSE parts[1] \o sep \o join(sep, Tail(parts))

\* [f(x) for x in xs]
MapStrip(xs) == [k \in 1..Len(xs) |-> strip(xs[k])]

\* ' ' * n (the empty string for n <= 0)
Spaces(n) == [k \in 1..(IF n > 0 THEN n ELSE 0) |-> " "]

\* -------------------------------------------------------- Python's re
\* A pattern is a tree; M(r, s, st) is the sequence of the match states r
\* can end in from state st, in the order a backtracking matcher tries them
\* (greedy repeats longest first), so its head is the match Python reports.
\* A state is the position of the next character and the groups' spans.

Cls(cs) == [t |-> "cls", cs |-> cs]
NCls(cs) == [t |-> "ncls", cs |-> cs]
Lit(str) == [t |-> "lit", s |-> str]
Cat(rs) == [t |-> "cat", rs |-> rs]
Alt(rs) == [t |-> "alt", rs |-> rs]
Star(r) == [t |-> "star", r |-> r]
Plus(r) == [t |-> "plus", r |-> r]
LazyStar(r) == [t |-> "lazystar", r |-> r]
LazyPlus(r) == [t |-> "lazyplus", r |-> r]
Opt(r) == [t |-> "opt", r |-> r]
Grp(n, r) == [t |-> "grp", n |-> n, r |-> r]
Ref(n) == [t |-> "ref", n |-> n]
Bol == [t |-> "bol"]
Eol == [t |-> "eol"]
WordB == [t |-> "wordb"]
Dot == NCls({"\n"})
W == Cls(WordCh)
Sp == Cls(SpaceCh)

NoGroups == [n \in 1..4 |-> <<0, -1>>]

IsWordAt(s, k) == k >= 1 /\ k <= Len(s) /\ s[k] \in WordCh

Advanced(sts, p) == SelectSeq(sts, LAMBDA x : x.p > p)

RECURSIVE M(_, _, _)
RECURSIVE MEach(_, _, _)
RECURSIVE MCat(_, _, _, _)
RECURSIVE MAlt(_, _, _, _)
RECURSIVE MStar(_, _, _, _)
RECURSIVE MStarEach(_, _, _, _)

\* r from each state of sts, in order
MEach(r, s, sts) ==
    IF sts = <<>> THEN <<>> ELSE M(r, s, Head(sts)) \o MEach(r, s, Tail(sts))

MCat(rs, k, s, sts) ==
    IF k > Len(rs) \/ sts = <<>> THEN sts ELSE MCat(rs, k + 1, s, MEach(rs[k], s, sts))

MAlt(rs, k, s, st) ==
    IF k > Len(rs) THEN <<>> ELSE M(rs[k], s, st) \o MAlt(rs, k + 1, s, st)

\* r*: greedy tries one more r first, lazy tries stopping first
MStar(r, greedy, s, st) ==
    Let(MStarEach(r, greedy, s, Advanced(M(r, s, st), st.p)), LAMBDA more :
        IF greedy THEN more \o <<st>> ELSE <<st>> \o more)

MStarEach(r, greedy, s, sts) ==
    IF sts = <<>> THEN <<>>
    ELSE MStar(r, greedy, s, Head(sts)) \o MStarEach(r, greedy, s, Tail(sts))

M(r, s, st) ==
    CASE r.t = "cls" ->
           IF st.p <= Len(s) /\ s[st.p] \in r.cs THEN <<[st EXCEPT !.p = @ + 1]>> ELSE <<>>
      [] r.t = "ncls" ->
           IF st.p <= Len(s) /\ s[st.p] \notin r.cs THEN <<[st EXCEPT !.p = @ + 1]>> ELSE <<>>
      [] r.t = "lit" ->
           IF st.p + Len(r.s) - 1 <= Len(s) /\ Slice(s, st.p, st.p + Len(r.s) - 1) = r.s
           THEN <<[st EXCEPT !.p = @ + Len(r.s)]>> ELSE <<>>
      [] r.t = "cat" -> MCat(r.rs, 1, s, <<st>>)
      [] r.t = "alt" -> MAlt(r.rs, 1, s, st)
      [] r.t = "star" -> MStar(r.r, TRUE, s, st)
      [] r.t = "lazystar" -> MStar(r.r, FALSE, s, st)
      [] r.t = "plus" -> MStarEach(r.r, TRUE, s, M(r.r, s, st))
      [] r.t = "lazyplus" -> MStarEach(r.r, FALSE, s, M(r.r, s, st))
      [] r.t = "opt" -> M(r.r, s, st) \o <<st>>
      [] r.t = "grp" ->
           Let(M(r.r, s, st), LAMBDA in :
               [k \in 1..Len(in) |-> [in[k] EXCEPT !.g[r.n] = <<st.p, in[k].p - 1>>]])
      [] r.t = "ref" ->
           Let(Slice(s, st.g[r.n][1], st.g[r.n][2]), LAMBDA w :
               IF st.g[r.n][1] >= 1 /\ st.p + Len(w) - 1 <= Len(s)
                  /\ Slice(s, st.p, st.p + Len(w) - 1) = w
               THEN <<[st EXCEPT !.p = @ + Len(w)]>> ELSE <<>>)
      [] r.t = "bol" -> IF st.p = 1 THEN <<st>> ELSE <<>>
      [] r.t = "eol" ->
           IF st.p = Len(s) + 1 \/ (st.p = Len(s) /\ s[st.p] = "\n") THEN <<st>> ELSE <<>>
      [] r.t = "wordb" ->
           IF IsWordAt(s, st.p - 1) # IsWordAt(s, st.p) THEN <<st>> ELSE <<>>

\* the match of r at position p of s: [ok, e (one past its end), g]
MatchAt(r, s, p) ==
    Let(M(r, s, [p |-> p, g |-> NoGroups]), LAMBDA ms :
        IF ms = <<>> THEN [ok |-> FALSE, e |-> 0, g |-> NoGroups]
        ELSE [ok |-> TRUE, e |-> ms[1].p, g |-> ms[1].g])

\* re.match(r, s), m.group(n)
re_match(r, s) == MatchAt(r, s, 1)
group(m, s, n) == Slice(s, m.g[n][1], m.g[n][2])

\* re.search(r, s): the leftmost match
RECURSIVE SearchFrom(_, _, _)
SearchFrom(r, s, p) ==
    IF p > Len(s) + 1 THEN [ok |-> FALSE, e |-> 0, g |-> NoGroups]
    ELSE Let(MatchAt(r, s, p), LAMBDA m : IF m.ok THEN m ELSE SearchFrom(r, s, p + 1))
re_search(r, s) == SearchFrom(r, s, 1)

\* re.sub(r, repl, s) for a pattern that matches no empty string and a
\* replacement without group references
RECURSIVE SubFrom(_, _, _, _)
SubFrom(r, repl, s, p) ==
    IF p > Len(s) THEN <<>>
    ELSE Let(MatchAt(r, s, p), LAMBDA m :
             IF m.ok /\ m.e > p THEN repl \o SubFrom(r, repl, s, m.e)
             ELSE <<s[p]>> \o SubFrom(r, repl, s, p + 1))
re_sub(r, repl, s) == SubFrom(r, repl, s, 1)


\* ------------------------------------------- tools/cpp_to_py_converter.py

\* [\w\s:<>,] and [\w\s:<>,*&]
DeclCh == WordCh \cup SpaceCh \cup {":", "<", ">", ","}
SigCh == DeclCh \cup {"*", "&"}

\* str.split(): the last whitespace-separated token, <<>> when there is none
LastTok(p) ==
    Let(rstrip(p), LAMBDA q :
        Let({k \in 1..Len(q) : k = 1 \/ q[k - 1] \in SpaceCh}, LAMBDA starts :
            IF q = <<>> THEN <<>>
            ELSE Slice(q, CHOOSE k \in starts : \A j \in starts : j <= k, Len(q))))

strip_type(s0) ==
    Let(re_sub(Cat(<<WordB,
                     Alt(<<Lit(S("long long")), Lit(S("long")), Lit(S("int")), Lit(S("short")),
                           Lit(S("bool")), Lit(S("char")), Lit(S("double")), Lit(S("float")),
                           Lit(S("string"))>>),
                     WordB>>), <<>>, s0), LAMBDA s1 :
    Let(re_sub(Cat(<<WordB,
                     Alt(<<Lit(S("const")), Lit(S("std::")), Lit(S("unsigned")), Lit(S("signed")),
                           Lit(S("static")), Lit(S("volatile"))>>),
                     WordB>>), <<>>, s1), LAMBDA s2 :
    Let(re_sub(Cat(<<Lit(S("<")), Plus(NCls({">"})), Lit(S(">"))>>), <<>>, s2), LAMBDA s3 :
        strip(replace(replace(s3, S("*"), <<>>), S("&"), <<>>)))))

\* types[name] = 'int'
SetType(types, name, ty) ==
    [n \in DOMAIN types \cup {name} |-> IF n = name THEN ty ELSE types[n]]

\* the loop of convert_decl over parts[k..], from out_lines and types
RECURSIVE DeclParts(_, _, _, _)
DeclParts(parts, k, out, types) ==
    IF k > Len(parts) THEN [out |-> out, types |-> types]
    ELSE IF contains(parts[k], S("="))
    THEN Let(MapStrip(split1(parts[k], S("="))), LAMBDA nv :
             DeclParts(parts, k + 1, Append(out, nv[1] \o S(" = ") \o nv[2]),
                       SetType(types, nv[1], "int")))
    ELSE Let(strip(re_sub(Cat(<<Lit(S("[")), Star(Dot), Lit(S("]"))>>), <<>>, parts[k])),
             LAMBDA name :
                 IF name # <<>>
                 THEN DeclParts(parts, k + 1, Append(out, name \o S(" = 0")),
                                SetType(types, name, "int"))
                 ELSE DeclParts(parts, k + 1, out, types))

\* convert_decl(line, types): [ret (None or the text), types (as left)]
convert_decl(line, types) ==
    Let(re_match(Cat(<<Bol, Plus(Cls(DeclCh)), Plus(Sp), Grp(1, Plus(Dot)),
                       Lit(S(";")), Eol>>), line), LAMBDA m :
        IF ~m.ok THEN [ret |-> None, types |-> types]
        ELSE Let(DeclParts(MapStrip(split(group(m, line, 1), S(","))), 1, <<>>, types),
                 LAMBDA r : [ret |-> join(S("\n"), r.out), types |-> r.types]))

convert_cin(line0, types) ==
    Let(rstripCh(strip(line0), {";"}), LAMBDA line :
        IF ~startswith(line, S("cin >>")) THEN None
        ELSE Let(MapStrip(split(strip(Slice(line, Len(S("cin >>")) + 1, Len(line))), S(">>"))),
                 LAMBDA vars :
                     IF \A k \in 1..Len(vars) :
                            vars[k] \in DOMAIN types => types[vars[k]] = "string"
                     THEN join(S(", "), vars) \o S(" = input().split()")
                     ELSE IF Len(vars) > 1
                     THEN join(S(", "), vars) \o S(" = map(int, input().split())")
                     ELSE vars[1] \o S(" = int(input())")))

\* one part of a cout chain as the f-string holds it (parts2)
CoutPart(p) ==
    IF startswith(p, S("\"")) \/ startswith(p, S("'")) THEN stripCh(p, {"\"", "'"})
    ELSE S("{") \o p \o S("}")

RECURSIVE ConcatAll(_)
ConcatAll(xs) == IF xs = <<>> THEN <<>> ELSE Head(xs) \o ConcatAll(Tail(xs))

convert_cout(line) ==
    Let(rstripCh(strip(line), {";"}), LAMBDA s :
        IF ~startswith(s, S("cout <<")) THEN None
        ELSE Let(MapStrip(Tail(split(s, S("<<")))), LAMBDA parts :
                 S("print(f\"") \o ConcatAll([k \in 1..Len(parts) |-> CoutPart(parts[k])])
                 \o S("\")")))

ForHead(v, a, b) == S("for ") \o v \o S(" in range(") \o a \o S(", ") \o b \o S("):")

\* \s*-\s*1
Minus1 == Cat(<<Star(Sp), Lit(S("-")), Star(Sp), Lit(S("1"))>>)

\* the rule of convert_for for a header its first pattern matched: var, start,
\* op and end are the groups
ForRange(line, var, start, op, end) ==
    IF op = S("<") THEN ForHead(var, start, end)
    ELSE IF op = S("<=")
    THEN IF re_match(Cat(<<Grp(1, Plus(W)), Minus1>>), end).ok
         THEN ForHead(var, start, re_sub(Minus1, <<>>, end))
         ELSE ForHead(var, start, end \o S(" + 1"))
    ELSE IF op \in {S(">"), S(">=")}
    THEN S("# TODO: translate C++ for descending loop: ") \o line
    ELSE None

\* the fallback of convert_for: for (i = 0; i < n; i++)
ForFallback(line) ==
    Let(re_match(Cat(<<Lit(S("for")), Star(Sp), Lit(S("(")), Star(Sp),
                       Grp(1, Plus(W)), Star(Sp), Lit(S("=")), Star(Sp),
                       Grp(2, Plus(Cls(Digit))), Star(Sp), Lit(S(";")), Star(Sp),
                       Ref(1), Star(Sp), Lit(S("<")), Star(Sp),
                       Grp(3, Plus(W)), Star(Sp), Lit(S(";")), Star(Sp),
                       Ref(1), Lit(S("++")), Star(Sp), Lit(S(")"))>>), line), LAMBDA m2 :
        IF m2.ok THEN ForHead(group(m2, line, 1), group(m2, line, 2), group(m2, line, 3))
        ELSE None)

\* the += 1 loop header of convert_for, or None
convert_for(line) ==
    Let(re_match(Cat(<<Lit(S("for")), Star(Sp), Lit(S("(")), Star(Sp),
                       Opt(Cat(<<Lit(S("int")), Plus(Sp)>>)),
                       Grp(1, Plus(W)), Star(Sp), Lit(S("=")), Star(Sp),
                       Grp(2, LazyPlus(Dot)), Star(Sp), Lit(S(";")), Star(Sp),
                       Ref(1), Star(Sp),
                       Grp(3, Plus(Cls({"<", ">", "=", "!"}))), Star(Sp),
                       Grp(4, LazyPlus(Dot)), Star(Sp), Lit(S(";")), Star(Sp),
                       Alt(<<Lit(S("++")), Cat(<<Lit(S("++")), Ref(1)>>),
                             Cat(<<Ref(1), Lit(S("++"))>>), Cat(<<Ref(1), Lit(S("++"))>>)>>),
                       Star(Sp), Lit(S(")"))>>), line), LAMBDA m :
        Let(IF m.ok
            THEN ForRange(line, group(m, line, 1), strip(group(m, line, 2)), group(m, line, 3),
                          strip(group(m, line, 4)))
            ELSE None, LAMBDA ranged :
            IF ranged # None THEN ranged ELSE ForFallback(line)))

\* convert_while(line): [ok (FALSE for Python's None), py, stmts (<<>> for None)]
convert_while(line) ==
    Let(rstripCh(strip(line), {";"}), LAMBDA s :
    Let(re_match(Cat(<<Lit(S("while")), Star(Sp), Lit(S("(")), Grp(1, Plus(Dot)), Lit(S(")")),
                       Star(Sp), Grp(2, Star(Dot))>>), s), LAMBDA m :
        IF ~startswith(s, S("while")) \/ ~m.ok THEN [ok |-> FALSE, py |-> <<>>, stmts |-> <<>>]
        ELSE Let(strip(group(m, s, 2)), LAMBDA rest :
                 [ok |-> TRUE, py |-> S("while ") \o strip(group(m, s, 1)) \o S(":"),
                  stmts |-> IF rest # <<>> THEN MapStrip(split(rest, S(","))) ELSE <<>>])))

\* the parameter names of convert_function_def, from parts[k..]
RECURSIVE ParamNames(_, _)
ParamNames(parts, k) ==
    IF k > Len(parts) THEN <<>>
    ELSE Let(LastTok(strip_type(parts[k])), LAMBDA tok :
             (IF strip(parts[k]) # <<>> /\ tok # <<>> THEN <<tok>> ELSE <<>>)
             \o ParamNames(parts, k + 1))

convert_function_def(line) ==
    Let(re_match(Cat(<<Plus(Cls(SigCh)), Plus(Sp), Grp(1, Plus(W)), Star(Sp),
                       Lit(S("(")), Grp(2, Star(Dot)), Lit(S(")")), Star(Sp), Lit(S("{")),
                       Star(Sp), Eol>>), line), LAMBDA m :
        IF ~m.ok THEN None
        ELSE Let(group(m, line, 2), LAMBDA params :
                 IF strip(params) = <<>> THEN S("def ") \o group(m, line, 1) \o S("():")
                 ELSE S("def ") \o group(m, line, 1) \o S("(")
                      \o join(S(", "), ParamNames(MapStrip(split(params, S(","))), 1))
                      \o S("):")))

\* ^(int|long|long long|string|bool|double|float|char)\b
DeclPrefix ==
    Cat(<<Bol, Alt(<<Lit(S("int")), Lit(S("long")), Lit(S("long long")), Lit(S("string")), Lit(S("bool")),
                     Lit(S("double")), Lit(S("float")), Lit(S("char"))>>), WordB>>)

\* \bkw<[^>]+>\b
Generic(kw) == Cat(<<WordB, Lit(kw), Lit(S("<")), Plus(NCls({">"})), Lit(S(">")), WordB>>)

\* the replacements convert_line makes before it tries the loop rules
Rewrites(s) ==
    replace(
        replace(
            replace(
                re_sub(Generic(S("set")), S("set"),
                       re_sub(Generic(S("map")), S("dict"),
                              re_sub(Generic(S("vector")), S("list"),
                                     replace(replace(s, S("push_back("), S("append(")),
                                             S("->"), S("."))))),
                S("st.insert"), S("st.add")),
            S("se.insert"), S("se.add")),
        S("memset("), S("# memset:"))

\* the rules of convert_line from getline on, on the rewritten s
LastRules(s) ==
    Let(re_search(Cat(<<Lit(S("getline(")), Star(Sp), Lit(S("cin")), Star(Sp), Lit(S(",")),
                        Star(Sp), Grp(1, Plus(W)), Star(Sp), Lit(S(")")), Star(Sp),
                        Lit(S(";"))>>), s), LAMBDA gl :
        IF contains(s, S("getline(")) /\ gl.ok THEN group(gl, s, 1) \o S(" = input()")
        ELSE IF startswith(s, S("getchar(")) \/ startswith(s, S("getchar();"))
        THEN S("_ = sys.stdin.read(1)")
        ELSE IF endswith(s, S(";")) THEN Slice(s, 1, Len(s) - 1)
        ELSE s)

\* the rules of convert_line after the rewrites, on the rewritten s
LoopRules(s) ==
    Let(convert_for(s), LAMBDA f :
        IF f # None /\ f # <<>> THEN f
        ELSE Let(convert_while(s), LAMBDA w :
                 IF w.ok
                 THEN IF w.stmts # <<>> THEN w.py \o S("\n") \o join(S("\n"), w.stmts)
                      ELSE w.py
                 ELSE LastRules(s)))

\* what convert_line returns: the text and the types map as it leaves it
Returns(py, ty) == [exc |-> "", py |-> py, types |-> ty]

\* the rules of convert_line from the declarations on, on s = line.strip()
DeclRules(s, types) ==
    Let(IF re_match(DeclPrefix, s).ok THEN convert_decl(s, types)
        ELSE [ret |-> None, types |-> types], LAMBDA d :
        IF d.ret # None /\ d.ret # <<>> THEN Returns(d.ret, d.types)
        ELSE Let(convert_cin(s, d.types), LAMBDA c :
                 IF c # None /\ c # <<>> THEN Returns(c, d.types)
                 ELSE Let(convert_cout(s), LAMBDA c2 :
                          IF c2 # None /\ c2 # <<>> THEN Returns(c2, d.types)
                          ELSE Returns(LoopRules(Rewrites(s)), d.types))))

\* the rules of convert_line up to return, on s = line.strip()
FirstRules(line, s, types) ==
    IF s \in {S("{"), S("}"), S("};")} THEN Returns(<<>>, types)
    ELSE Let(convert_function_def(line), LAMBDA fd :
             IF fd # None /\ fd # <<>> THEN Returns(fd, types)
             ELSE IF re_match(Cat(<<Lit(S("int")), Plus(Sp), Lit(S("main")), Star(Sp),
                                    Lit(S("(")), Star(Sp), Lit(S(")")), Star(Sp),
                                    Lit(S("{"))>>), s).ok
             THEN Returns(S("def main():"), types)
             ELSE IF re_match(Cat(<<Lit(S("return")), Plus(Sp), Lit(S("0")), Star(Sp),
                                    Lit(S(";"))>>), s).ok
             THEN Returns(S("return"), types)
             ELSE IF re_match(Cat(<<Lit(S("return")), Plus(Sp), Plus(NCls({";"})),
                                    Lit(S(";"))>>), s).ok
             THEN Returns(S("return ")
                          \o rstripCh(strip(Slice(s, Len(S("return")) + 1, Len(s))), {";"}),
                          types)
             ELSE DeclRules(s, types))

\* convert_line(line, types): [exc, py, types]; exc names the exception the
\* call raises ("" when it returns), py is the text returned and types the
\* map as the call leaves it
convert_line(line, types) ==
    IF line = None THEN [exc |-> "AttributeError", py |-> None, types |-> types]
    ELSE FirstRules(line, strip(line), types)

\* int(x) of a str: [ok (FALSE: ValueError), v]; surrounding whitespace and a
\* sign are accepted, then decimal digits only
DigitVal(c) ==
    CASE c = "0" -> 0 [] c = "1" -> 1 [] c = "2" -> 2 [] c = "3" -> 3 [] c = "4" -> 4
      [] c = "5" -> 5 [] c = "6" -> 6 [] c = "7" -> 7 [] c = "8" -> 8 [] c = "9" -> 9

RECURSIVE DigitsVal(_)
DigitsVal(ds) ==
    IF ds = <<>> THEN 0 ELSE 10 * DigitsVal(Slice(ds, 1, Len(ds) - 1)) + DigitVal(ds[Len(ds)])

\* the value of a string of an optional sign and digits ds
SignedVal(s, ds) == IF s[1] = "-" THEN 0 - DigitsVal(ds) ELSE DigitsVal(ds)

\* int(x) of the stripped s, for a str x
IntOf(s) ==
    Let(IF s # <<>> /\ s[1] \in {"+", "-"} THEN Tail(s) ELSE s, LAMBDA ds :
        IF ds = <<>> \/ ~(Range(ds) \subseteq Digit) THEN [ok |-> FALSE, v |-> 0]
        ELSE [ok |-> TRUE, v |-> SignedVal(s, ds)])

int(x) == IF x = None THEN [ok |-> FALSE, v |-> 0] ELSE IntOf(strip(x))

\* the decimal digits, in order
DigitChars == <<"0", "1", "2", "3", "4", "5", "6", "7", "8", "9">>

\* str(n) for n >= 0
RECURSIVE str(_)
str(n) ==
    IF n < 10 THEN <<DigitChars[n + 1]>> ELSE str(n \div 10) \o <<DigitChars[(n % 10) + 1]>>

\* f"{v}" of a str or None
Fmt(v) == IF v = None THEN S("None") ELSE v

\* the header of the input table: the columns process_file reads, after one
\* it does not read (SPOC: text, code, ..., probid, subid, line, indent)
Header == <<"text", "code", "probid", "subid", "line", "indent">>

ColIndex(c) == CHOOSE k \in 1..Len(Header) : Header[k] = c

\* csv.DictReader: the row of a line's fields; a column the line is too short
\* for holds None, and fields beyond the header are kept under the key None
DictRow(fields) ==
    [d |-> [c \in Range(Header) |->
               IF ColIndex(c) <= Len(fields) THEN fields[ColIndex(c)] ELSE None],
     rest |-> Slice(fields, Len(Header) + 1, Len(fields))]

\* csv.DictWriter.writerow: the fields written, None as the empty field
WrittenRow(d) == [k \in 1..Len(Header) |-> IF d[Header[k]] = None THEN <<>> ELSE d[Header[k]]]

\* line_num of process_file: int(row.get('line', '0')), 0 when that raises
LineNum(d) == Let(int(d["line"]), LAMBDA n : IF n.ok THEN n.v ELSE 0)

\* int(row.get('indent', '0') or 0)
Indent(d) == IF d["indent"] = None \/ d["indent"] = <<>> THEN [ok |-> TRUE, v |-> 0]
             ELSE int(d["indent"])

\* current_key of process_file for a row that starts a program
ComputeKey(d) ==
    IF (d["probid"] # None /\ d["probid"] # <<>>) \/ (d["subid"] # None /\ d["subid"] # <<>>)
    THEN S("p") \o Fmt(d["probid"]) \o S("_s") \o Fmt(d["subid"])
    ELSE None

\* the name of the side file a flush writes
ExampleName(key, count) ==
    (IF key # None THEN key ELSE S("example_") \o str(count)) \o S(".py")

\* sub.rstrip() indented, the empty string when nothing is left
IndentLine(sub, indent) == IF sub = <<>> THEN <<>> ELSE Spaces(4 * indent) \o sub

\* py_text of process_file: every line of py right-stripped and indented
RECURSIVE IndentLines(_, _)
IndentLines(subs, indent) ==
    IF subs = <<>> THEN <<>>
    ELSE <<IndentLine(rstrip(Head(subs)), indent)>> \o IndentLines(Tail(subs), indent)

PyText(py, indent) == join(S("\n"), IndentLines(split(py, S("\n")), indent))

\* ------------------------------------------- scripts/convert_spoc_tsv.py

\* [A-Za-z_][A-Za-z0-9_]*
Ident == Cat(<<Cls(Lower \cup Upper \cup {"_"}), Star(W)>>)

\* [p.strip() for p in parts if p.strip()]
StripNonEmpty(parts) == SelectSeq(MapStrip(parts), LAMBDA p : p # <<>>)

\* the cin rule of translate_code, on a line that starts with 'cin >>'
TranslateCin(s) ==
    Let(StripNonEmpty(split(rstripCh(strip(Slice(s, Len(S("cin >>")) + 1, Len(s))), {";"}),
                            S(">>"))), LAMBDA vars :
        IF Len(vars) = 1 THEN vars[1] \o S(" = input().strip()")
        ELSE join(S(", "), vars) \o S(" = input().split()"))

\* whether a part of a cout chain names a newline: endl, '\n' or "\n"
IsNewlinePart(p) == contains(p, S("endl")) \/ contains(p, S("'\\n'")) \/ contains(p, S("\"\\n\""))

\* print(...) of the parts of a cout chain with a newline part
PrintLine(kept) ==
    IF Len(kept) = 0 THEN S("print()")
    ELSE IF Len(kept) = 1 THEN S("print(") \o kept[1] \o S(")")
    ELSE S("print(") \o join(S(", "), kept) \o S(")")

\* the cout rule of translate_code, on a line that starts with 'cout <<'
TranslateCout(s) ==
    Let(StripNonEmpty(split(rstripCh(strip(Slice(s, Len(S("cout <<")) + 1, Len(s))), {";"}),
                            S("<<"))), LAMBDA parts :
        IF \E k \in 1..Len(parts) : IsNewlinePart(parts[k])
        THEN PrintLine(SelectSeq(parts, LAMBDA p : ~IsNewlinePart(p)))
        ELSE IF Len(parts) = 1 THEN S("print(") \o parts[1] \o S(", end='')")
        ELSE S("print(") \o join(S(", "), parts) \o S(", end='')"))

\* \s*\{?$ and \s*;?$
BraceEnd == Cat(<<Star(Sp), Opt(Lit(S("{"))), Eol>>)

SemiEnd == Cat(<<Star(Sp), Opt(Lit(S(";"))), Eol>>)

\* cond.replace('&&', ' and ').replace('||', ' or ')
AndOr(c) == replace(replace(c, S("&&"), S(" and ")), S("||"), S(" or "))

\* the condition of the if rule
IfCond(c) ==
    replace(replace(replace(AndOr(c), S("=="), S(" == ")), S("!="), S(" != ")), S("!"),
            S(" not "))

\* the two for patterns of translate_code
ForUp ==
    Cat(<<Bol, Lit(S("for")), Star(Sp), Lit(S("(")), Star(Sp), Lit(S("int")), Plus(Sp),
          Grp(1, Ident), Star(Sp), Lit(S("=")), Star(Sp),
          Grp(2, Plus(Cls(Digit \cup {"+", "-"}))), Star(Sp), Lit(S(";")), Star(Sp),
          Ref(1), Star(Sp), Lit(S("<")), Star(Sp),
          Grp(3, Plus(Cls(WordCh \cup {".", "(", ")", "-", "+"}))), Star(Sp),
          Lit(S(";")), Star(Sp), Ref(1), Lit(S("++")), Star(Sp), Lit(S(")")), BraceEnd>>)

ForDown ==
    Cat(<<Bol, Lit(S("for")), Star(Sp), Lit(S("(")), Star(Sp), Lit(S("int")), Plus(Sp),
          Grp(1, Ident), Star(Sp), Lit(S("=")), Star(Sp),
          Grp(2, Plus(Cls(WordCh \cup {"(", ")", "-", "+"}))), Star(Sp), Lit(S(";")),
          Star(Sp), Ref(1), Star(Sp), Lit(S(">=")), Star(Sp),
          Grp(3, Plus(Cls(Digit))), Star(Sp), Lit(S(";")), Star(Sp), Ref(1),
          Lit(S("--")), Star(Sp), Lit(S(")")), BraceEnd>>)

\* s without a semicolon at its end
DropSemi(s) == IF endswith(s, S(";")) THEN Slice(s, 1, Len(s) - 1) ELSE s

\* the rules of translate_code from the for loops on
TranslateFor(s) ==
    Let(re_match(ForUp, s), LAMBDA mup :
        IF mup.ok
        THEN S("for ") \o group(mup, s, 1) \o S(" in range(") \o group(mup, s, 2) \o S(", ")
             \o group(mup, s, 3) \o S("):")
        ELSE Let(re_match(ForDown, s), LAMBDA mdown :
                 IF mdown.ok
                 THEN S("for ") \o group(mdown, s, 1) \o S(" in range(")
                      \o group(mdown, s, 2) \o S(", ") \o group(mdown, s, 3) \o S("-1, -1):")
                 ELSE DropSemi(replace(replace(s, S("true"), S("True")), S("false"),
                                       S("False")))))

\* the rules of translate_code from if on
TranslateIf(s) ==
    Let(re_match(Cat(<<Bol, Lit(S("if")), Star(Sp), Lit(S("(")), Grp(1, Star(Dot)),
                       Lit(S(")")), BraceEnd>>), s), LAMBDA mif :
        IF mif.ok THEN S("if ") \o IfCond(strip(group(mif, s, 1))) \o S(":")
        ELSE Let(re_match(Cat(<<Bol, Lit(S("else")), Plus(Sp), Lit(S("if")), Star(Sp),
                                Lit(S("(")), Grp(1, Star(Dot)), Lit(S(")")), BraceEnd>>), s),
                 LAMBDA melif :
                     IF melif.ok
                     THEN S("elif ") \o AndOr(strip(group(melif, s, 1))) \o S(":")
                     ELSE IF re_match(Cat(<<Bol, Lit(S("else")), BraceEnd>>), s).ok
                     THEN S("else:")
                     ELSE IF s = S("break;") THEN S("break")
                     ELSE IF s = S("continue;") THEN S("continue")
                     ELSE TranslateFor(s)))

\* the rules of translate_code from its cin rule on, on s after push_back
TranslateRest(s) ==
    IF startswith(s, S("cin >>")) THEN TranslateCin(s)
    ELSE Let(re_match(Cat(<<Bol, Lit(S("getline(")), Star(Sp), Lit(S("cin")), Star(Sp),
                            Lit(S(",")), Star(Sp), Grp(1, Ident), Star(Sp), Lit(S(")")),
                            SemiEnd>>), s), LAMBDA gl :
             IF gl.ok THEN group(gl, s, 1) \o S(" = input()")
             ELSE Let(re_match(Cat(<<Bol, Lit(S("cin.getline(")), Star(Sp), Grp(1, Ident),
                                     Star(Sp), Lit(S(",")), Star(Sp), Plus(Cls(Digit)),
                                     Star(Sp), Lit(S(")")), SemiEnd>>), s), LAMBDA cgl :
                      IF cgl.ok THEN group(cgl, s, 1) \o S(" = input()")
                      ELSE IF startswith(s, S("cout <<")) THEN TranslateCout(s)
                      ELSE TranslateIf(s)))

\* \s*;$
Semi == Cat(<<Star(Sp), Lit(S(";")), Eol>>)

\* vector<\s*elem\s*>
Vec(elem) == Cat(<<Lit(S("vector<")), Star(Sp), Lit(elem), Star(Sp), Lit(S(">"))>>)

\* \s*=\s*val\s*;?$
InitTo(val) == Cat(<<Star(Sp), Lit(S("=")), Star(Sp), Lit(val), SemiEnd>>)

\* ^kind\s+([A-Za-z_][A-Za-z0-9_]*)tail
Decl(kind, tail) == Cat(<<Bol, kind, Plus(Sp), Grp(1, Ident), tail>>)

\* the declaration rules of translate_code, in its order: the pattern and
\* what follows the name in the result
DeclTable ==
    << [pat |-> Decl(Lit(S("string")), Semi), val |-> S(" = ''")],
       [pat |-> Decl(Lit(S("char")), Cat(<<Lit(S("[")), Plus(Cls(Digit)), Lit(S("]")), Semi>>)),
        val |-> S(" = ''")],
       [pat |-> Decl(Alt(<<Lit(S("int")), Cat(<<Lit(S("long")), Plus(Sp), Lit(S("long"))>>),
                           Lit(S("long")), Cat(<<Lit(S("short")), Plus(Sp), Lit(S("int"))>>),
                           Lit(S("short"))>>), Semi),
        val |-> S(" = 0")],
       [pat |-> Decl(Lit(S("bool")), InitTo(S("false"))), val |-> S(" = False")],
       [pat |-> Decl(Lit(S("bool")), InitTo(S("true"))), val |-> S(" = True")],
       [pat |-> Decl(Vec(S("char")), Semi), val |-> S(" = []")],
       [pat |-> Decl(Vec(S("string")), Semi), val |-> S(" = []")],
       [pat |-> Decl(Vec(S("int")), Semi), val |-> S(" = []")] >>

\* the result of the first declaration rule from the k-th on that matches s,
\* None when none does
RECURSIVE TranslateDecl(_, _)
TranslateDecl(s, k) ==
    IF k > Len(DeclTable) THEN None
    ELSE Let(re_match(DeclTable[k].pat, s), LAMBDA m :
             IF m.ok THEN group(m, s, 1) \o DeclTable[k].val ELSE TranslateDecl(s, k + 1))

\* the rules of translate_code on the normalized s
TranslateLine(s) ==
    IF re_match(Cat(<<Bol, Lit(S("int")), Plus(Sp), Lit(S("main")), Star(Sp), Lit(S("(")),
                      Star(Sp), Lit(S(")")), BraceEnd>>), s).ok
    THEN S("def main():")
    ELSE IF s = S("return 0;") THEN S("return 0")
    ELSE IF s = S("{") \/ s = S("}") THEN <<>>
    ELSE Let(TranslateDecl(s, 1), LAMBDA d :
             IF d # None THEN d
             ELSE TranslateRest(re_sub(Cat(<<Lit(S(".push_back")), Star(Sp), Lit(S("("))>>),
                                       S(".append("), s)))

translate_code(code) ==
    IF code = None THEN <<>>
    ELSE IF strip(code) = <<>> THEN <<>>
    ELSE TranslateLine(strip(replace(strip(code), S("\t"), S(" "))))

\* ------------------------------------------------------------- process_file

\* bounds of the model: rows read by one run, and the largest cap tried
MaxRows == 3
MaxCap == 2

\* max_examples when main is given no --examples
DefaultMax == 50

VARIABLES
    pc,             \* where the run is; for process_file "loop": reading rows,
                    \* "done": returned, "raised": an exception left it
    exc,            \* the exception that ended the run, "" when none
    examples_dir,   \* whether per-program files are written
    max_examples,   \* the cap on them
    inp,            \* the lines of the table read so far, each a sequence of fields
    types,          \* process_file's types
    program_lines,  \* its program_lines
    example_count,  \* its example_count
    current_key,    \* its current_key
    passed,         \* the types map each call of convert_line was given, in order
    out,            \* the rows written to the output table
    files,          \* the side files written, in order: [name, text]
    \* convert_spoc_tsv.py
    data_lines,     \* the data lines of the input table
    loop_i,         \* i of the index loop, then idx of the write loop
    loop_start,     \* start of the index loop
    indices,        \* the (start, end) pairs
    chunks,         \* the chunk files written, in order, each a sequence of lines
    \* convert_tsv_to_jsonl.py
    tsv,            \* the rows of the input table, each a sequence of fields
    jsonl_file,     \* the records written, in order
    row_count,      \* count of convert_tsv_to_jsonl
    \* one call of convert_line
    call_line,      \* the line given
    tmap,           \* the types map given
    result          \* what the call returned: [exc, py, types]

pvars == <<examples_dir, max_examples, inp, types, program_lines, example_count,
           current_key, passed, out, files>>
cvars == <<data_lines, loop_i, loop_start, indices, chunks>>
jvars == <<tsv, jsonl_file, row_count>>
lvars == <<call_line, tmap, result>>
vars == <<pc, exc, pvars, cvars, jvars, lvars>>

\* the variables of the programs a specification does not run
NoProcessFile ==
    /\ examples_dir = FALSE /\ max_examples = 0 /\ inp = <<>> /\ types = <<>>
    /\ program_lines = <<>> /\ example_count = 0 /\ current_key = None
    /\ passed = <<>> /\ out = <<>> /\ files = <<>>
NoChunking ==
    data_lines = <<>> /\ loop_i = 0 /\ loop_start = 0 /\ indices = <<>> /\ chunks = <<>>
NoJsonl == tsv = <<>> /\ jsonl_file = <<>> /\ row_count = 0
NoLine == call_line = <<>> /\ tmap = <<>> /\ result = <<>>

\* a full line of the table, a line cut short after k fields, a line with a
\* field too many
TableLine(code, probid, subid, line, indent) == <<S("t"), code, probid, subid, line, indent>>
ShortLine(l, k) == Slice(l, 1, k)
LongLine(l) == l \o <<S("e")>>

\* the lines a run may read: rows that start a program (line 0) and rows that
\* continue one, with and without identifiers, with a malformed, an empty and
\* a missing line or indent field, cut short before the code field, and with
\* a field more than the header has
InputLines ==
    { TableLine(S("int x;"), S("7"), S("3"), S("0"), S("0")),
      TableLine(S("int n, m;"), S("7"), S("3"), S("1"), S("1")),
      TableLine(S("cin >> x >> s;"), <<>>, <<>>, S("0"), S("1")),
      TableLine(S("x++;"), S("8"), S("3"), S("zz"), S("0")),
      TableLine(S("x++;"), S("8"), S("3"), S("1"), S("abc")),
      TableLine(S("}"), S("8"), <<>>, <<>>, <<>>),
      ShortLine(TableLine(S("x++;"), S("7"), S("3"), S("0"), S("0")), 1),
      ShortLine(TableLine(S("int y;"), S("7"), S("3"), S("0"), S("0")), 4),
      LongLine(TableLine(S("x++;"), S("7"), S("3"), S("1"), S("0"))) }

\* TypesAtRow as the code does not have it: the map is kept across a program boundary.
TypesAtRow_kept(boundary, ty) == ty

\* types = {} on a row that starts a program
TypesAtRow(boundary, ty) == IF boundary THEN <<>> ELSE ty

\* ShouldFlush as the code does not have it: the cap is compared with <=.
ShouldFlush_le(dir, lines, count, cap) == dir /\ lines # <<>> /\ count <= cap

\* the guard of both flushes
ShouldFlush(dir, lines, count, cap) == dir /\ lines # <<>> /\ count < cap

Flush(key, lines, count) == [name |-> ExampleName(key, count), text |-> join(S("\n"), lines)]

\* the exception a row's processing ends in, "" when it is written
RowExc(ind, r, row) ==
    IF ~ind.ok THEN "ValueError"
    ELSE IF r.exc # "" THEN r.exc
    ELSE IF row.rest # <<>> THEN "ValueError"
    ELSE ""

Init ==
    /\ pc = "loop"
    /\ exc = ""
    /\ \/ examples_dir = FALSE /\ max_examples = DefaultMax
       \/ examples_dir = TRUE /\ max_examples \in 0..MaxCap
    /\ inp = <<>>
    /\ types = <<>>
    /\ program_lines = <<>>
    /\ example_count = 0
    /\ current_key = None
    /\ passed = <<>>
    /\ out = <<>>
    /\ files = <<>>
    /\ NoChunking /\ NoJsonl /\ NoLine

\* one turn of the loop over the reader's rows
ProcessRow(fields) ==
    /\ pc = "loop"
    /\ Len(inp) < MaxRows
    /\ \E row \in {DictRow(fields)} :
       \E boundary \in {LineNum(row.d) = 0} :
       \E flush \in {boundary /\ ShouldFlush(examples_dir, program_lines, example_count,
                                             max_examples)} :
       \E types1 \in {TypesAtRow(boundary, types)} :
       \E lines1 \in {IF boundary THEN <<>> ELSE program_lines} :
       \E ind \in {Indent(row.d)} :
       \E r \in {convert_line(row.d["code"], types1)} :
       \E py_text \in {PyText(r.py, ind.v)} :
       \E e \in {RowExc(ind, r, row)} :
          /\ inp' = Append(inp, fields)
          /\ files' = IF flush THEN Append(files, Flush(current_key, program_lines,
                                                         example_count))
                      ELSE files
          /\ example_count' = IF flush THEN example_count + 1 ELSE example_count
          /\ current_key' = IF boundary THEN ComputeKey(row.d) ELSE current_key
          /\ passed' = IF ind.ok THEN Append(passed, types1) ELSE passed
          /\ types' = IF ind.ok THEN r.types ELSE types1
          /\ exc' = e
          /\ IF e = ""
             THEN /\ out' = Append(out, WrittenRow([row.d EXCEPT !["code"] = py_text]))
                  /\ program_lines' = IF examples_dir /\ strip(py_text) # <<>>
                                      THEN Append(lines1, py_text) ELSE lines1
                  /\ pc' = "loop"
             ELSE /\ out' = out
                  /\ program_lines' = lines1
                  /\ pc' = "raised"
    /\ UNCHANGED <<examples_dir, max_examples, cvars, jvars, lvars>>

\* the end of the input: the final flush
Finish ==
    /\ pc = "loop"
    /\ files' = IF ShouldFlush(examples_dir, program_lines, example_count, max_examples)
                THEN Append(files, Flush(current_key, program_lines, example_count))
                ELSE files
    /\ pc' = "done"
    /\ UNCHANGED <<exc, examples_dir, max_examples, inp, types, program_lines,
                   example_count, current_key, passed, out, cvars, jvars, lvars>>

Next ==
    \/ \E fields \in InputLines : ProcessRow(fields)
    \/ Finish

Spec == Init /\ [][Next]_vars

\* --------------------------------------------- claims about process_file
\* What the table read so far says, computed from inp alone.

RowAt(k) == DictRow(inp[k]).d
CodeAt(k) == RowAt(k)["code"]
IsBoundary(k) == LineNum(RowAt(k)) = 0

\* the first row of the program unit row k belongs to: the last row from
\* line 0 at or before k (the first row, for rows before any such row)
UnitStart(k) ==
    LET bs == {j \in 1..k : IsBoundary(j)} \cup {1}
    IN CHOOSE j \in bs : \A i \in bs : i <= j

\* the identifiers a row's own line records
RecordedBy(k) == IF CodeAt(k) = None THEN {} ELSE DOMAIN convert_line(CodeAt(k), <<>>).types

\* C1: the type map given to convert_line for a row holds only identifiers
\* recorded by earlier rows of the same program unit (the rows from the last
\* line-0 row on); for a row that starts a unit it is empty.
C1_TypesOfCurrentUnit ==
    \A k \in 1..Len(passed) :
        DOMAIN passed[k] \subseteq UNION {RecordedBy(j) : j \in UnitStart(k)..(k - 1)}

\* a unit recorded an identifier, a later row started a new unit and was
\* converted, and a row inside a unit saw what its unit recorded
C1_Witness ==
    /\ \E k \in 2..Len(passed) : IsBoundary(k) /\ RecordedBy(k - 1) # {} /\ passed[k] = <<>>
    /\ \E k \in 2..Len(passed) : ~IsBoundary(k) /\ DOMAIN passed[k] # {}

\* C2: with reconstruction enabled, the number of side files written, at
\* program boundaries and at the end of the input, never exceeds max_examples.
C2_FilesWithinCap == examples_dir => Len(files) <= max_examples

\* the run ended with the cap reached and the last unit's lines not written
C2_Witness ==
    /\ pc = "done" /\ examples_dir /\ max_examples >= 1
    /\ Len(files) = max_examples /\ program_lines # <<>>

Min(a, b) == IF a <= b THEN a ELSE b

\* the rows that start a program unit, and the last row of the unit from a
UnitStarts == {k \in 1..Len(inp) : k = 1 \/ IsBoundary(k)}
UnitEnd(a) ==
    LET later == {k \in UnitStarts : k > a}
    IN IF later = {} THEN Len(inp) ELSE (CHOOSE k \in later : \A j \in later : k <= j) - 1

\* the non-empty rendered lines of the unit from a, in row order, as the
\* output table holds them in its code column
UnitLines(a) ==
    LET last == Min(UnitEnd(a), Len(out))
        all == [j \in 1..(IF last >= a THEN last - a + 1 ELSE 0) |-> out[a + j - 1][ColIndex("code")]]
    IN SelectSeq(all, LAMBDA x : strip(x) # <<>>)

\* the units that produced a non-empty rendered line, in order
RECURSIVE UnitsFrom(_)
UnitsFrom(k) ==
    IF k > Len(inp) THEN <<>>
    ELSE (IF k \in UnitStarts /\ UnitLines(k) # <<>> THEN <<k>> ELSE <<>>) \o UnitsFrom(k + 1)
ProducingUnits == UnitsFrom(1)

\* the name of the i-th file, for the unit from a: from the probid and subid
\* of the row that starts the unit at line 0, the sequential name without them
UnitFileName(a, i) ==
    LET ids == IF IsBoundary(a) THEN <<inp[a][ColIndex("probid")], inp[a][ColIndex("subid")]>>
               ELSE <<<<>>, <<>>>>
    IN IF Len(inp[a]) >= ColIndex("subid") /\ (ids[1] # <<>> \/ ids[2] # <<>>)
       THEN S("p") \o ids[1] \o S("_s") \o ids[2] \o S(".py")
       ELSE S("example_") \o str(i - 1) \o S(".py")

FilesAreTheUnits(n) ==
    /\ Len(files) = n
    /\ \A i \in 1..n :
          /\ files[i].text = join(S("\n"), UnitLines(ProducingUnits[i]))
          /\ files[i].name = UnitFileName(ProducingUnits[i], i)

\* C3 (as claimed): with reconstruction enabled, once the run is over every
\* program unit that produced a non-empty rendered line, up to the cap, has
\* been written exactly once, with exactly its own non-empty rendered lines
\* in row order and under the name made from its own probid and subid (the
\* sequential name when it has none).
C3_EveryUnitFlushedOnce ==
    (examples_dir /\ pc \in {"done", "raised"})
        => FilesAreTheUnits(Min(Len(ProducingUnits), max_examples))

\* C4 (as claimed): one output row per input row, in order, with the header's
\* columns; every column but code holds the input field (the empty field for
\* a missing one).
C4_OneOutputRowPerInputRow ==
    (pc \in {"done", "raised"}) =>
        /\ Len(out) = Len(inp)
        /\ \A k \in 1..Len(out) :
              /\ Len(out[k]) = Len(Header)
              /\ \A c \in 1..Len(Header) :
                    Header[c] # "code" =>
                        out[k][c] = (IF c <= Len(inp[k]) THEN inp[k][c] ELSE <<>>)

\* C5 (as claimed): whatever the code field of a row holds, a missing field
\* included, the call of convert_line for it returns a text and does not raise.
C5_ConvertLineNeverRaises ==
    \A k \in 1..Len(passed) : convert_line(CodeAt(k), passed[k]).exc = ""

\* a line or indent field that is no integer: non-numeric, empty or missing
Malformed(fields, c) == ColIndex(c) > Len(fields) \/ ~int(fields[ColIndex(c)]).ok

\* C6 (as claimed): a row whose indent or line field is no valid integer does
\* not abort the run; the field counts as 0 (no leading whitespace, a program
\* boundary) and the row is written like any other.
C6_MalformedIntegerIsZero ==
    \A k \in 1..Len(inp) :
        ( /\ Malformed(inp[k], "line") \/ Malformed(inp[k], "indent")
          /\ Len(inp[k]) >= ColIndex("code") /\ Len(inp[k]) <= Len(Header) )
        => /\ Len(out) >= k
           /\ Malformed(inp[k], "line") => passed[k] = <<>>
           /\ Malformed(inp[k], "indent") =>
                 out[k][ColIndex("code")] = PyText(convert_line(CodeAt(k), passed[k]).py, 0)

\* --------------------------------------- convert_spoc_tsv.py, __main__

\* the number of chunks written
NumChunks == 4

\* bound of the model: the most data lines a table holds
MaxTotal == 38

header_line == S("text\tcode\tline")

\* the data lines tables are made of: two or three columns, one column, a
\* code column translate_code rewrites and one it returns as it is
LinePool ==
    << S("a\tint x;\t0"), S("b\tx\t1"), S("solo"), S("c\tcout << x << endl;"), S("d\t\t4") >>

\* the table of n data lines that takes the pool's lines in turn from the
\* off-th on
TableOf(n, off) == [k \in 1..n |-> LinePool[((k + off) % Len(LinePool)) + 1]]

\* ChunkAdd as the code does not have it: the remainder test is off by one.
ChunkAdd_le(k, chunk_size, remainder) == chunk_size + (IF k <= remainder THEN 1 ELSE 0)

\* add of the index loop, for its i = k
ChunkAdd(k, chunk_size, remainder) == chunk_size + (IF k < remainder THEN 1 ELSE 0)

\* ChunkRows as the code does not have it: the slice starts one line early.
ChunkRows_early(lines, s, e) == Slice(lines, IF s = 0 THEN 1 ELSE s, e)

\* data_lines[s:e]
ChunkRows(lines, s, e) == Slice(lines, s + 1, e)

\* a data line as write_chunk writes it
WriteLine(ln) ==
    Let(split(ln, S("\t")), LAMBDA cols :
        IF Len(cols) >= 2 THEN join(S("\t"), [cols EXCEPT ![2] = translate_code(cols[2])])
        ELSE join(S("\t"), cols))

\* the lines of the file write_chunk writes
write_chunk(lines) == <<header_line>> \o [k \in 1..Len(lines) |-> WriteLine(lines[k])]

InitChunk ==
    /\ pc = "index"
    /\ exc = ""
    /\ \E n \in 0..MaxTotal, off \in 0..(Len(LinePool) - 1) : data_lines = TableOf(n, off)
    /\ loop_i = 0
    /\ loop_start = 0
    /\ indices = <<>>
    /\ chunks = <<>>
    /\ NoProcessFile /\ NoJsonl /\ NoLine

\* one turn of: for i in range(4)
IndexStep ==
    /\ pc = "index"
    /\ \E end \in {loop_start + ChunkAdd(loop_i, Len(data_lines) \div NumChunks,
                                         Len(data_lines) % NumChunks)} :
          /\ indices' = Append(indices, <<loop_start, end>>)
          /\ loop_start' = end
    /\ loop_i' = IF loop_i + 1 < NumChunks THEN loop_i + 1 ELSE 1
    /\ pc' = IF loop_i + 1 < NumChunks THEN "index" ELSE "write"
    /\ UNCHANGED <<exc, data_lines, chunks, pvars, jvars, lvars>>

\* one turn of: for idx, (s_idx, e_idx) in enumerate(indices, start=1)
WriteStep ==
    /\ pc = "write"
    /\ chunks' = Append(chunks, write_chunk(ChunkRows(data_lines, indices[loop_i][1],
                                                      indices[loop_i][2])))
    /\ loop_i' = IF loop_i < Len(indices) THEN loop_i + 1 ELSE loop_i
    /\ pc' = IF loop_i < Len(indices) THEN "write" ELSE "done"
    /\ UNCHANGED <<exc, data_lines, loop_start, indices, pvars, jvars, lvars>>

NextChunk == IndexStep \/ WriteStep

SpecChunk == InitChunk /\ [][NextChunk]_vars

\* ----------------------------------------------- claims about the chunking

ChunkSize(k) == indices[k][2] - indices[k][1]

\* C7: the four index ranges are contiguous and in order, start at 0 and end
\* at total; the sizes differ by at most one and exactly the first
\* total mod 4 chunks have the larger size total div 4 + 1 (37 rows give
\* 10, 9, 9, 9).
C7_BalancedContiguousChunks ==
    pc \in {"write", "done"} =>
        LET total == Len(data_lines)
        IN /\ Len(indices) = 4
           /\ indices[1][1] = 0
           /\ indices[4][2] = total
           /\ \A k \in 1..3 : indices[k][2] = indices[k + 1][1]
           /\ \A k \in 1..4 : indices[k][1] <= indices[k][2]
           /\ \A k \in 1..total : Cardinality({c \in 1..4 : indices[c][1] < k
                                                          /\ k <= indices[c][2]}) = 1
           /\ \A j, k \in 1..4 : ChunkSize(j) - ChunkSize(k) <= 1
           /\ \A k \in 1..4 : ChunkSize(k) = (total \div 4) + (IF k <= total % 4 THEN 1 ELSE 0)
           /\ total = 37 => <<ChunkSize(1), ChunkSize(2), ChunkSize(3), ChunkSize(4)>>
                            = <<10, 9, 9, 9>>

\* the 37-row table has been split
C7_Witness ==
    /\ pc = "done" /\ Len(data_lines) = 37
    /\ indices = <<<<0, 10>>, <<10, 19>>, <<19, 28>>, <<28, 37>>>>

\* the data rows of the chunk files, concatenated in chunk order
RECURSIVE ConcatData(_)
ConcatData(fs) == IF fs = <<>> THEN <<>> ELSE Tail(Head(fs)) \o ConcatData(Tail(fs))

\* C8 (as claimed): the chunk files' data rows, concatenated in chunk order,
\* are the input's data rows exactly.
C8_ChunksReproduceRows == pc = "done" => ConcatData(chunks) = data_lines

\* C8 (amended): the concatenation holds one row per input data row, in the
\* input's order; a row has the input row's columns, the second replaced by
\* translate_code of it and every other one unchanged (a row of fewer than
\* two columns is unchanged), and each chunk file starts with the header.
C8_ChunksReproduceTranslatedRows ==
    pc = "done" =>
        LET got == ConcatData(chunks)
        IN /\ Len(got) = Len(data_lines)
           /\ \A c \in 1..Len(chunks) : Head(chunks[c]) = header_line
           /\ \A k \in 1..Len(got) :
                 LET a == split(data_lines[k], S("\t"))
                     b == split(got[k], S("\t"))
                 IN /\ Len(b) = Len(a)
                    /\ \A c \in 1..Len(a) :
                          b[c] = (IF c = 2 THEN translate_code(a[c]) ELSE a[c])

\* a table whose rows translate_code changes and leaves alone has been
\* written, with rows in each of the four chunks
C8_Witness ==
    /\ pc = "done" /\ Len(chunks) = 4
    /\ \A c \in 1..4 : Len(chunks[c]) >= 2
    /\ \E k \in 1..Len(data_lines) : ConcatData(chunks)[k] # data_lines[k]
    /\ \E k \in 1..Len(data_lines) : ConcatData(chunks)[k] = data_lines[k]

\* ------------------------------------------------ convert_tsv_to_jsonl.py

\* bound of the model: rows read by one run of convert_tsv_to_jsonl
MaxJsonRows == 3

\* JSON values: a string, null, an array of strings
JStr(s) == [t |-> "string", s |-> s, a |-> <<>>]
JNull == [t |-> "null", s |-> <<>>, a |-> <<>>]
JArr(a) == [t |-> "array", s |-> <<>>, a |-> a]

\* json.dumps(row) of a DictReader row: the object's members in the dict's
\* order, None written as null and the key None as "null"
json_dumps(row) ==
    [k \in 1..Len(Header) |->
        <<Header[k], IF row.d[Header[k]] = None THEN JNull ELSE JStr(row.d[Header[k]])>>]
    \o (IF row.rest # <<>> THEN <<<<"null", JArr(row.rest)>>>> ELSE <<>>)

\* json.loads(record)[key]: the value of the last member named key
JsonGet(record, key) ==
    LET at == {k \in 1..Len(record) : record[k][1] = key}
    IN record[CHOOSE k \in at : \A j \in at : j <= k][2]

\* the rows a run may read: full, with empty fields, cut short, too long
JsonLines ==
    { TableLine(S("int x;"), S("7"), S("3"), S("0"), S("1")),
      TableLine(<<>>, <<>>, S("3"), <<>>, S("0")),
      ShortLine(TableLine(S("x++;"), S("7"), S("3"), S("0"), S("0")), 2),
      ShortLine(TableLine(S("x++;"), S("7"), S("3"), S("0"), S("0")), 5),
      LongLine(TableLine(S("}"), S("8"), S("3"), S("1"), S("0"))) }

InitJsonl ==
    /\ pc = "rows"
    /\ exc = ""
    /\ tsv = <<>>
    /\ jsonl_file = <<>>
    /\ row_count = 0
    /\ NoProcessFile /\ NoChunking /\ NoLine

\* one turn of: for row in reader
JsonRow(fields) ==
    /\ pc = "rows"
    /\ Len(tsv) < MaxJsonRows
    /\ tsv' = Append(tsv, fields)
    /\ jsonl_file' = Append(jsonl_file, json_dumps(DictRow(fields)))
    /\ row_count' = row_count + 1
    /\ UNCHANGED <<pc, exc, pvars, cvars, lvars>>

\* the end of the input
JsonEnd ==
    /\ pc = "rows"
    /\ pc' = "done"
    /\ UNCHANGED <<exc, pvars, cvars, jvars, lvars>>

NextJsonl ==
    \/ \E fields \in JsonLines : JsonRow(fields)
    \/ JsonEnd

SpecJsonl == InitJsonl /\ [][NextJsonl]_vars

\* C9 (as claimed): one record per row of the table, in row order, and read
\* back a record gives every column of the header a string, the row's field
\* unchanged, also for rows with empty fields and with fewer or more fields
\* than the header.
C9_JsonlRoundTrip ==
    pc = "done" =>
        /\ Len(jsonl_file) = Len(tsv)
        /\ \A k \in 1..Len(jsonl_file) : \A c \in 1..Len(Header) :
              LET v == JsonGet(jsonl_file[k], Header[c])
              IN /\ v.t = "string"
                 /\ c <= Len(tsv[k]) => v.s = tsv[k][c]

\* ------------------------------------------------- one call of convert_line

Kinds == { [decl |-> S("int"), numeric |-> TRUE, array |-> FALSE],
           [decl |-> S("long"), numeric |-> TRUE, array |-> FALSE],
           [decl |-> S("long long"), numeric |-> TRUE, array |-> FALSE],
           [decl |-> S("double"), numeric |-> TRUE, array |-> FALSE],
           [decl |-> S("float"), numeric |-> TRUE, array |-> FALSE],
           [decl |-> S("string"), numeric |-> FALSE, array |-> FALSE],
           [decl |-> S("char"), numeric |-> FALSE, array |-> TRUE] }

Names == {S("x"), S("s")}

\* a declaration of one name without initializer: 'int x;', 'char s[10];'
DeclLine(kind, name) ==
    kind.decl \o S(" ") \o name \o (IF kind.array THEN S("[10]") ELSE <<>>) \o S(";")

\* cout << e1 << ... << ek;
CoutLine(es) == S("cout << ") \o join(S(" << "), es) \o S(";")

\* the operands of the write chains: a name, a string literal, endl, "\n"
CoutItems == {S("x"), S("\"a\""), S("endl"), S("\"\\n\"")}

\* the chains of one and of two operands
CoutChains == {<<e>> : e \in CoutItems} \cup {<<e, f>> : e, f \in CoutItems}

\* for (int i = S; i OP E; i++)
ForLine(st, op, e) ==
    S("for (int i = ") \o st \o S("; i ") \o op \o S(" ") \o e \o S("; i++)")

\* the counted ascending loops: their starts, comparisons and ends
ForHeaders ==
    [st : {S("0"), S("1")}, op : {S("<"), S("<=")},
     e : {S("n"), S("5"), S("n - 1"), S("n-1"), S("n - 2"), S("n - 10")}]

\* cin >> v1 >> ... >> vk;
CinLine(vs) == S("cin >> ") \o join(S(" >> "), vs) \o S(";")

\* the lines a call may be given
CallLines ==
    {DeclLine(kind, name) : kind \in Kinds, name \in Names}
        \cup {S("cin >> x >> s;"), S("x++;")}
        \cup {S("{"), S("int f(int a) {"), S("int main() {"), S("return 0;"), S("return x;"),
              S("while (x) {"), S("getline(cin, s);"), S("if (x) {"), S("else if (x) {")}
        \cup {CinLine(<<name>>) : name \in Names}
        \cup {CoutLine(es) : es \in CoutChains}
        \cup {ForLine(h.st, h.op, h.e) : h \in ForHeaders}

\* the types maps a call may be given
TypeMaps == UNION {[ns -> {"int", "string"}] : ns \in SUBSET Names}

InitLine ==
    /\ pc = "call"
    /\ exc = ""
    /\ call_line \in CallLines
    /\ tmap \in TypeMaps
    /\ result = <<>>
    /\ NoProcessFile /\ NoChunking /\ NoJsonl

Call ==
    /\ pc = "call"
    /\ result' = convert_line(call_line, tmap)
    /\ pc' = "returned"
    /\ UNCHANGED <<exc, call_line, tmap, pvars, cvars, jvars>>

NextLine == Call

SpecLine == InitLine /\ [][NextLine]_vars

\* C10 (as claimed): a declaration of one name without initializer is
\* rendered as the assignment of 0 to the name for a numeric kind and of an
\* empty-value literal for a textual or array kind, and the name is recorded
\* in the types map with the matching kind.
C10_DeclarationDefaults ==
    pc = "returned" =>
        \A kind \in Kinds, name \in Names :
            call_line = DeclLine(kind, name) =>
                /\ result.exc = ""
                /\ name \in DOMAIN result.types
                /\ IF kind.numeric
                   THEN result.py = name \o S(" = 0") /\ result.types[name] = "int"
                   ELSE /\ result.py \in {name \o S(" = ''"), name \o S(" = \"\""), name \o S(" = []")}
                        /\ result.types[name] = "string"

\* ------------------------------- the calls of convert_line within one program
\* process_file gives every row of a program unit the same types map, {} at
\* the unit's first row, and convert_line's rules change it in place.

\* bound of the model: the rows of the unit
MaxUnitRows == 3

\* the target lists of the read lines a unit may hold
CinTargets == {<<S("x")>>, <<S("x"), S("y")>>, <<S("x"), S("s")>>}

\* the code of the rows a unit may hold
UnitCode ==
    {S("int x;"), S("int y;"), S("int x, y;"), S("string s;")}
        \cup {CinLine(vs) : vs \in CinTargets}

InitUnit ==
    /\ pc = "unit"
    /\ exc = ""
    /\ examples_dir = FALSE /\ max_examples = 0 /\ inp = <<>> /\ types = <<>>
    /\ program_lines = <<>> /\ example_count = 0 /\ current_key = None
    /\ passed = <<>> /\ out = <<>> /\ files = <<>>
    /\ call_line = <<>> /\ tmap = <<>> /\ result = <<>>
    /\ NoChunking /\ NoJsonl

\* py = convert_line(code, types) for one more row of the unit
UnitRow(code) ==
    /\ pc = "unit"
    /\ Len(passed) < MaxUnitRows
    /\ call_line' = code
    /\ tmap' = types
    /\ passed' = Append(passed, types)
    /\ \E r \in {convert_line(code, types)} :
          /\ result' = r
          /\ types' = r.types
    /\ UNCHANGED <<pc, exc, examples_dir, max_examples, inp, program_lines, example_count,
                   current_key, out, files, cvars, jvars>>

NextUnit == \E code \in UnitCode : UnitRow(code)

SpecUnit == InitUnit /\ [][NextUnit]_vars

\* the two forms of a read of several targets
NumericForm(vs) == join(S(", "), vs) \o S(" = map(int, input().split())")
TokenForm(vs) == join(S(", "), vs) \o S(" = input().split()")

\* every target has a recorded type and the type is numeric
AllNumeric(vs, ty) == \A k \in 1..Len(vs) : vs[k] \in DOMAIN ty /\ ty[vs[k]] = "int"

\* C11 (as claimed): for a read line of two or more targets and the types map
\* of its unit, the numeric-converting form is rendered only when every
\* target has a recorded type that is numeric, and the unconverted token form
\* is rendered when some target is unrecorded or recorded as textual.
C11_NumericOnlyWhenAllNumeric ==
    \A vs \in CinTargets :
        (Len(vs) >= 2 /\ passed # <<>> /\ call_line = CinLine(vs)) =>
            /\ result.py = NumericForm(vs) => AllNumeric(vs, tmap)
            /\ ~AllNumeric(vs, tmap) => result.py = TokenForm(vs)

\* C12 (as claimed): a read line with exactly one target v is rendered, for
\* every types map (v unrecorded, numeric or textual), as the assignment to v
\* of one whole input line trimmed, v = input().strip(), without splitting
\* into tokens and without numeric conversion.
C12_SingleTargetReadsTrimmedLine ==
    pc = "returned" =>
        \A name \in Names :
            call_line = CinLine(<<name>>) =>
                result.exc = "" /\ result.py = name \o S(" = input().strip()")

\* the operands that say newline
NewlineTokens == {S("endl"), S("\"\\n\"")}
HasNewline(es) == \E k \in 1..Len(es) : es[k] \in NewlineTokens

\* C13 (as claimed): a write chain is rendered as a print that ends with a
\* newline when the chain holds a newline token (endl or "\n") and as a print
\* that suppresses the newline (end='') when it holds none, and the newline
\* token is never rendered as an interpolated expression.
C13_NewlineFollowsTheChain ==
    pc = "returned" =>
        \A es \in CoutChains :
            call_line = CoutLine(es) =>
                /\ result.exc = ""
                /\ startswith(result.py, S("print("))
                /\ HasNewline(es) <=> ~contains(result.py, S("end=''"))
                /\ \A tok \in NewlineTokens : ~contains(result.py, S("{") \o tok \o S("}"))

\* bound of the claim: the values of n tried
MaxN == 12

\* the value of a name or a literal where n is nv: [ok (FALSE: no value), v]
TermVal(tk, nv) ==
    IF tk = S("n") THEN [ok |-> TRUE, v |-> nv]
    ELSE IF tk # <<>> /\ Range(tk) \subseteq Digit THEN [ok |-> TRUE, v |-> DigitsVal(tk)]
    ELSE [ok |-> FALSE, v |-> 0]

\* the value of a sum of names and literals, without spaces, where n is nv
RECURSIVE SumVal(_, _)
SumVal(e, nv) ==
    Let({k \in 2..Len(e) : e[k] \in {"+", "-"}}, LAMBDA signs :
        IF signs = {} THEN TermVal(e, nv)
        ELSE Let(CHOOSE k \in signs : \A j \in signs : j <= k, LAMBDA k :
             Let(SumVal(Slice(e, 1, k - 1), nv), LAMBDA l :
             Let(TermVal(Slice(e, k + 1, Len(e)), nv), LAMBDA r :
                 [ok |-> l.ok /\ r.ok,
                  v |-> IF e[k] = "+" THEN l.v + r.v ELSE l.v - r.v]))))

\* the value of an expression of the loop header where n is nv
ExprVal(e, nv) == SumVal(replace(e, S(" "), <<>>), nv)

\* B of a rendered 'for i in range(st, B):', None for any other text
RangeBound(py, st) ==
    Let(S("for i in range(") \o st \o S(", "), LAMBDA head :
        IF startswith(py, head) /\ endswith(py, S("):"))
        THEN Slice(py, Len(head) + 1, Len(py) - 2)
        ELSE None)

\* the counter values the source loop visits, its end being ev
Visited(sv, op, ev) == IF op = S("<") THEN sv..(ev - 1) ELSE sv..ev

\* range(sv, B) is what the loop visits, for every value of n, B having a value
BoundIsExact(b, st, op, e) ==
    /\ b # None
    /\ \A nv \in 0..MaxN :
          /\ ExprVal(b, nv).ok
          /\ ExprVal(st, nv).v..(ExprVal(b, nv).v - 1)
                 = Visited(ExprVal(st, nv).v, op, ExprVal(e, nv).v)

\* C14 (as claimed): for a counted ascending loop with < or <= the rendered
\* range(S, B) enumerates exactly the counter values the loop visits: B is E
\* for <, E + 1 for <=, and for <= an end written X - k is simplified to X
\* only when k is 1.
C14_RangeIsTheLoop ==
    pc = "returned" =>
        \A h \in ForHeaders :
            call_line = ForLine(h.st, h.op, h.e) =>
                /\ result.exc = ""
                /\ BoundIsExact(RangeBound(result.py, h.st), h.st, h.op, h.e)
                /\ (h.op = S("<=") /\ RangeBound(result.py, h.st) = S("n"))
                       => h.e \in {S("n - 1"), S("n-1")}

\* the rule recognizers of convert_line, in the order it tries them
Recognizers ==
    <<"scope marker", "function signature", "entry procedure", "bare return",
      "return with expression", "declaration", "formatted read", "formatted write",
      "counted loop", "while loop", "line read">>

\* whether a rule of convert_line, taken alone, recognizes the line: the
\* condition under which convert_line returns from that rule
Recognizes(rule, line, ty) ==
    CASE rule = "scope marker" -> strip(line) \in {S("{"), S("}"), S("};")}
      [] rule = "function signature" ->
            convert_function_def(line) \notin {None, <<>>}
      [] rule = "entry procedure" ->
            re_match(Cat(<<Lit(S("int")), Plus(Sp), Lit(S("main")), Star(Sp), Lit(S("(")),
                           Star(Sp), Lit(S(")")), Star(Sp), Lit(S("{"))>>), strip(line)).ok
      [] rule = "bare return" ->
            re_match(Cat(<<Lit(S("return")), Plus(Sp), Lit(S("0")), Star(Sp),
                           Lit(S(";"))>>), strip(line)).ok
      [] rule = "return with expression" ->
            re_match(Cat(<<Lit(S("return")), Plus(Sp), Plus(NCls({";"})),
                           Lit(S(";"))>>), strip(line)).ok
      [] rule = "declaration" ->
            /\ re_match(DeclPrefix, strip(line)).ok
            /\ convert_decl(strip(line), ty).ret \notin {None, <<>>}
      [] rule = "formatted read" -> convert_cin(strip(line), ty) \notin {None, <<>>}
      [] rule = "formatted write" -> convert_cout(strip(line)) \notin {None, <<>>}
      [] rule = "counted loop" -> convert_for(Rewrites(strip(line))) \notin {None, <<>>}
      [] rule = "while loop" -> convert_while(Rewrites(strip(line))).ok
      [] rule = "line read" ->
            /\ contains(Rewrites(strip(line)), S("getline("))
            /\ re_search(Cat(<<Lit(S("getline(")), Star(Sp), Lit(S("cin")), Star(Sp),
                               Lit(S(",")), Star(Sp), Grp(1, Plus(W)), Star(Sp),
                               Lit(S(")")), Star(Sp), Lit(S(";"))>>),
                         Rewrites(strip(line))).ok

\* the rules that recognize the line
RecognizedBy(line, ty) ==
    {k \in 1..Len(Recognizers) : Recognizes(Recognizers[k], line, ty)}

\* the conditional lines: if (...) { and else if (...) {
ConditionalLines == {S("if (x) {"), S("else if (x) {")}

\* C15 (as claimed): the rule recognizers of convert_line are mutually
\* exclusive, no line is recognized by more than one of them, and a
\* conditional or else-if line is never recognized by the function-signature
\* rule.
C15_RulesAreExclusive ==
    pc = "returned" =>
        /\ Cardinality(RecognizedBy(call_line, tmap)) <= 1
        /\ call_line \in ConditionalLines =>
               ~Recognizes("function signature", call_line, tmap)

====
